---- MODULE Spec2Model ----
(***************************************************************************)
(* Anomaly Detector (Dash application): a state-machine model of the       *)
(* dashboard callbacks of app.py / dashboard.py and of the accounts,       *)
(* login and routing of login.py / app.py.                                 *)
(*                                                                         *)
(* Numbers are exact: a z-score (v - mean) / sigma of a column with N      *)
(* non-missing values, sum S and sum of squares Q is kept as the pair      *)
(*      n = N*v - S,   d = N*Q - S*S      (z = n / sqrt(d), d > 0)         *)
(* so that every comparison the code makes on it is an integer comparison. *)
(* Thresholds are kept in tenths (the slider's step is 0.1).               *)
(***************************************************************************)
EXTENDS Integers, Sequences, FiniteSets, TLC

VARIABLES
    zscore_keeps_index, \* the installed scipy: does zscore(Series) return a Series?
    np_stream,          \* the numpy global generator: draws by (seed offset, position)
    stored_data,        \* dcc.Store 'stored-data'
    numeric_cols,       \* dcc.Store 'numeric-cols'
    selected_feature,   \* 'feature-dropdown'.value
    z_score_threshold,  \* 'z-score-threshold-slider'.value, in tenths
    analysis,           \* the outputs of update_analysis as the page holds them
    report,             \* the outputs of generate_smart_report as the page holds them
    call_args,          \* a direct call of a helper: its arguments
    call_result,        \* and what it returned ("pending" before it returns)
    np_random,          \* numpy's process-wide generator: its seed and position
    requests,           \* the report requests in flight, each with its locals
    USERS_DB,           \* login.py's dict of the process: username -> password, email
    login_state,        \* dcc.Store 'login-state' of the browser
    pathname,           \* dcc.Location 'url'.pathname
    page_content,       \* 'page-content'.children: the layout display_page returned
    register_message,   \* 'register-message'.children
    logged_out,         \* /logout was visited and login_user has not succeeded since
    registering,        \* the register requests in flight, each with its locals
    attack_types_grid,  \* 'attack-types-grid'.children: the six cards
    last_clicked        \* the card clicked last on the grid shown (0: none)

vars == <<zscore_keeps_index, np_stream, stored_data, numeric_cols,
          selected_feature, z_score_threshold, analysis, report,
          call_args, call_result, np_random, requests,
          USERS_DB, login_state, pathname, page_content, register_message,
          logged_out, registering, attack_types_grid, last_clicked>>

\* the accounts, the session and the routing
account == <<USERS_DB, login_state, pathname, page_content, register_message,
             logged_out>>

\* the attack-type cards of the dashboard
cards == <<attack_types_grid, last_clicked>>

\* what the page's callbacks leave alone
direct == <<call_args, call_result, np_random, requests,
            account, registering, cards>>

page == <<zscore_keeps_index, np_stream, stored_data, numeric_cols,
          selected_feature, z_score_threshold, analysis, report>>

(***************************************************************************)
(* Bounds of the model.                                                    *)
(***************************************************************************)
MaxRows == 3    \* rows of an uploaded CSV file
MaxCount == 12  \* counts and totals classify_risk is applied to
MaxDraw == 2    \* the greatest value of one Poisson draw

(***************************************************************************)
(* Values.                                                                 *)
(***************************************************************************)
None == [kind |-> "None"]

Num(v) == [k |-> "num", v |-> v]
NA == [k |-> "na", v |-> 0]          \* NaN in a frame, null / None in JSON
Str == [k |-> "str", v |-> 0]        \* a cell that does not parse as a number

ZNaN == [k |-> "nan", n |-> 0, d |-> 1]
ZNum(n, d) == [k |-> "num", n |-> n, d |-> d]

Range(s) == {s[i] : i \in DOMAIN s}

SeqsUpTo(S, n) == UNION {[1..k -> S] : k \in 0..n}

RECURSIVE SumSeq(_)
SumSeq(s) == IF s = <<>> THEN 0 ELSE Head(s) + SumSeq(Tail(s))

(***************************************************************************)
(* The CSV files a user can upload.  A file has its columns in order and   *)
(* its rows; column x holds integers or missing cells, column y holds an   *)
(* integer in every row, column s holds text.  A file may name a column of *)
(* integers 'index'.                                                       *)
(***************************************************************************)
Schemas == {<<"x", "y", "s">>, <<"y", "s">>, <<"index", "s">>}

XValues == {0, 1}

XCells == {Num(v) : v \in XValues} \cup {NA}

CsvRow(schema, xc) ==
    [c \in Range(schema) |->
        IF c = "x" THEN xc
        ELSE IF c = "y" THEN Num(7)
        ELSE IF c = "index" THEN Num(5)
        ELSE Str]

CsvFiles ==
    {[columns |-> sch, rows |-> [i \in 1..Len(xs) |-> CsvRow(sch, xs[i])]] :
        sch \in Schemas, xs \in SeqsUpTo(XCells, MaxRows)}

\* what the browser can send to handle_file_upload
Uploads ==
    {[contents |-> "None", csv |-> FALSE, parses |-> FALSE, file |-> None],
     [contents |-> "b64", csv |-> FALSE, parses |-> TRUE, file |-> None],
     [contents |-> "b64", csv |-> TRUE, parses |-> FALSE, file |-> None]}
    \cup {[contents |-> "b64", csv |-> TRUE, parses |-> TRUE, file |-> f] :
            f \in CsvFiles}

FeatureNames == {"x", "y", "s", "index"}

Thresholds == {-10, 0, 10, 30}

(***************************************************************************)
(* pandas: the dtype of a column.                                          *)
(***************************************************************************)
Column(rows, col) == [i \in 1..Len(rows) |-> rows[i][col]]

\* pd.read_csv: a column with no rows is object; an all-missing column is float64
read_csv_dtype(cells) ==
    IF Len(cells) = 0 THEN "object"
    ELSE IF \A i \in DOMAIN cells : cells[i].k = "num" THEN "int64"
    ELSE IF \A i \in DOMAIN cells : cells[i].k \in {"num", "na"} THEN "float64"
    ELSE "object"

\* DataFrame_dtype with a column of only None taken as float64, as read_csv takes it
DataFrame_dtype_all_nan_float(cells) ==
    IF \A i \in DOMAIN cells : cells[i].k = "num" THEN "int64"
    ELSE IF \A i \in DOMAIN cells : cells[i].k \in {"num", "na"} THEN "float64"
    ELSE "object"

\* pd.DataFrame(list of dicts): a column of only None is object
DataFrame_dtype(cells) ==
    IF \A i \in DOMAIN cells : cells[i].k = "num" THEN "int64"
    ELSE IF /\ \A i \in DOMAIN cells : cells[i].k \in {"num", "na"}
            /\ \E i \in DOMAIN cells : cells[i].k = "num" THEN "float64"
    ELSE "object"

RECURSIVE FilterSeq(_, _)
\* the elements of the sequence of names s that are in the set keep, in order
FilterSeq(s, keep) ==
    IF s = <<>> THEN <<>>
    ELSE IF Head(s) \in keep THEN <<Head(s)>> \o FilterSeq(Tail(s), keep)
    ELSE FilterSeq(Tail(s), keep)

(***************************************************************************)
(* handle_file_upload (app.py): the stores and KPIs it returns.            *)
(***************************************************************************)
\* NoUpload with an empty list of numeric columns beside no stored data
NoUpload_empty_list ==
    [stored_data |-> None, numeric_cols |-> [kind |-> "list", cols |-> <<>>],
     options |-> <<>>, total_rows_kpi |-> 0, numeric_features_kpi |-> 0]

\* return ..., [], None, None, "0", "0"
NoUpload ==
    [stored_data |-> None, numeric_cols |-> None,
     options |-> <<>>, total_rows_kpi |-> 0, numeric_features_kpi |-> 0]

handle_file_upload(upload) ==
    IF upload.contents = "None" THEN NoUpload
    ELSE IF ~upload.csv THEN NoUpload
    ELSE IF ~upload.parses THEN NoUpload
    ELSE LET df == upload.file
             numeric_columns ==
                 FilterSeq(df.columns,
                           {c \in Range(df.columns) :
                               read_csv_dtype(Column(df.rows, c))
                                   \in {"int64", "float64"}})
         IN [stored_data |-> [kind |-> "records", rows |-> df.rows],
             numeric_cols |-> [kind |-> "list", cols |-> numeric_columns],
             options |-> numeric_columns,
             total_rows_kpi |-> Len(df.rows),
             numeric_features_kpi |-> Len(numeric_columns)]

(***************************************************************************)
(* scipy.stats.zscore on the non-missing values of the selected column.    *)
(***************************************************************************)
RECURSIVE dropna_from(_, _)
dropna_from(cells, i) ==
    IF i > Len(cells) THEN <<>>
    ELSE IF cells[i].k = "na" THEN dropna_from(cells, i + 1)
    ELSE <<[index |-> i - 1, value |-> cells[i].v]>> \o dropna_from(cells, i + 1)

\* Series.dropna(): the non-missing values, each with its row index (0-based)
dropna(cells) == dropna_from(cells, 1)

\* zscore with the sample standard deviation (ddof = 1):
\* z = (v - mean) / sqrt(sum of squares / (N - 1))
zscore_ddof1(a) ==
    LET N == Len(a)
        S == SumSeq(a)
        Q == SumSeq([i \in 1..N |-> a[i] * a[i]])
        d == N * Q - S * S
    IN [i \in 1..N |-> IF d = 0 THEN ZNaN
                       ELSE ZNum((N - 1) * (N * a[i] - S), N * (N - 1) * d)]

\* population standard deviation (ddof = 0); a constant input gives NaN
zscore(a) ==
    LET N == Len(a)
        S == SumSeq(a)
        Q == SumSeq([i \in 1..N |-> a[i] * a[i]])
        d == N * Q - S * S
    IN [i \in 1..N |-> IF d = 0 THEN ZNaN ELSE ZNum(N * a[i] - S, d)]

\* df['z_score'] = zscore(df[col].dropna()): a Series is aligned on the index,
\* an array must have the frame's length
set_z_score(nrows, kept, z, keeps_index) ==
    IF keeps_index /\ Len(kept) > 0
    THEN [raised |-> FALSE,
          col |-> [i \in 1..nrows |->
                     IF \E j \in DOMAIN kept : kept[j].index = i - 1
                     THEN z[CHOOSE j \in DOMAIN kept : kept[j].index = i - 1]
                     ELSE ZNaN]]
    ELSE IF Len(z) # nrows THEN [raised |-> TRUE, col |-> <<>>]
    ELSE [raised |-> FALSE, col |-> z]

\* abs_gt with the comparison weakened to abs(x) >= z_score_threshold
abs_ge(z, threshold) ==
    /\ z.k = "num"
    /\ \/ threshold < 0
       \/ 100 * z.n * z.n >= threshold * threshold * z.d

\* abs(x) > z_score_threshold, the threshold in tenths; NaN compares False
abs_gt(z, threshold) ==
    /\ z.k = "num"
    /\ \/ threshold < 0
       \/ 100 * z.n * z.n > threshold * threshold * z.d

RECURSIVE IsqrtBetween(_, _, _)
IsqrtBetween(m, lo, hi) ==
    IF lo >= hi THEN lo
    ELSE LET mid == (lo + hi + 1) \div 2
         IN IF mid * mid <= m THEN IsqrtBetween(m, mid, hi)
            ELSE IsqrtBetween(m, lo, mid - 1)

\* the integer square root of m, for m below 2^31
Isqrt(m) == IsqrtBetween(m, 0, IF m < 46340 THEN m ELSE 46340)

RECURSIVE GCD(_, _)
GCD(a, b) == IF b = 0 THEN a ELSE GCD(b, a % b)

\* floor(s * s * n * n / d) and whether the division is exact, for d > 0,
\* computed in steps that stay below 2^31
scaled_square(n, d, s) ==
    LET g == GCD(n * n, d)
        p == (n * n) \div g
        q == d \div g
        t == s * (p % q)
        u == s * (t % q)
    IN [floor |-> s * s * (p \div q) + s * (t \div q) + u \div q,
        exact |-> u % q = 0]

\* a z-score rounded to a multiple of 2/s, in units of 2/s (ties go to even)
round_to(z, s) ==
    LET sq == scaled_square(z.n, z.d, s)
        m == Isqrt(sq.floor)                           \* floor(s * |z|)
        tie == m % 2 = 1 /\ sq.exact /\ m * m = sq.floor
        up == (m + 1) \div 2
        h == IF tie /\ up % 2 = 1 THEN up - 1 ELSE up
    IN IF z.n < 0 THEN -h ELSE h

\* Series.round(2) of a z-score, in hundredths
round2(z) == round_to(z, 200)

\* anomaly_label with the comparison made on the z-score rounded to 2 decimals
anomaly_label_rounded(z, threshold) ==
    IF /\ z.k = "num"
       /\ \/ threshold < 0
          \/ round2(z) > 10 * threshold
          \/ round2(z) < -10 * threshold
    THEN "Abnormal" ELSE "Normal"

\* anomaly_label with the two labels exchanged
anomaly_label_exchanged(z, threshold) ==
    IF abs_gt(z, threshold) THEN "Normal" ELSE "Abnormal"

\* 'Abnormal' if abs(x) > z_score_threshold else 'Normal'
anomaly_label(z, threshold) ==
    IF abs_gt(z, threshold) THEN "Abnormal" ELSE "Normal"

RECURSIVE abnormal_from_reset_index(_, _)
\* abnormal_from with 'index' counting the Abnormal rows (a reset index)
abnormal_from_reset_index(frame, i) ==
    IF i > Len(frame) THEN <<>>
    ELSE IF frame[i].anomaly_label = "Abnormal"
    THEN <<[cells |-> [c \in DOMAIN frame[i].cells \cup {"index"} |->
                          IF c = "index"
                          THEN Num(Cardinality({k \in 1..(i - 1) :
                                      frame[k].anomaly_label = "Abnormal"}))
                          ELSE frame[i].cells[c]],
            z_score |-> round2(frame[i].z_score),
            anomaly_label |-> "Abnormal"]>> \o abnormal_from_reset_index(frame, i + 1)
    ELSE abnormal_from_reset_index(frame, i + 1)

RECURSIVE abnormal_from_every_row(_, _)
\* abnormal_from without the filter on anomaly_label: every row of the frame
abnormal_from_every_row(frame, i) ==
    IF i > Len(frame) THEN <<>>
    ELSE <<[cells |-> [c \in DOMAIN frame[i].cells \cup {"index"} |->
                          IF c = "index" THEN Num(i - 1) ELSE frame[i].cells[c]],
            z_score |-> round2(frame[i].z_score),
            anomaly_label |-> frame[i].anomaly_label]>>
         \o abnormal_from_every_row(frame, i + 1)

RECURSIVE abnormal_from(_, _)
\* df[df['anomaly_label'] == 'Abnormal'] with 'index' set and z_score rounded
abnormal_from(frame, i) ==
    IF i > Len(frame) THEN <<>>
    ELSE IF frame[i].anomaly_label = "Abnormal"
    THEN <<[cells |-> [c \in DOMAIN frame[i].cells \cup {"index"} |->
                          IF c = "index" THEN Num(i - 1) ELSE frame[i].cells[c]],
            z_score |-> round2(frame[i].z_score),
            anomaly_label |-> "Abnormal"]>> \o abnormal_from(frame, i + 1)
    ELSE abnormal_from(frame, i + 1)

(***************************************************************************)
(* update_analysis (app.py).                                               *)
(***************************************************************************)
\* Placeholder with an empty frame's JSON in the store instead of None
PlaceholderEmptyJson ==
    [raised |-> FALSE, figure |-> [kind |-> "placeholder"], histograms |-> <<>>,
     table |-> <<>>, columns |-> <<>>, kpi |-> 0,
     store |-> [kind |-> "split", rows |-> <<>>]]

\* return placeholder, [], [], [], "0", None
Placeholder ==
    [raised |-> FALSE, figure |-> [kind |-> "placeholder"], histograms |-> <<>>,
     table |-> <<>>, columns |-> <<>>, kpi |-> 0, store |-> None]

\* the callback raised: it returned nothing (what the page still shows from
\* the previous run is not kept in the model)
Raised ==
    [raised |-> TRUE, figure |-> [kind |-> "placeholder"], histograms |-> <<>>,
     table |-> <<>>, columns |-> <<>>, kpi |-> 0, store |-> None]

\* pd.DataFrame(data).columns: an empty list of records has no columns
df_columns(rows) == IF rows = <<>> THEN {} ELSE DOMAIN rows[1]

\* invalid_selection without the test of the column's dtype
invalid_selection_any_dtype(rows, feature) ==
    feature \notin df_columns(rows)

\* selected_feature not in df.columns or its dtype not in ['int64', 'float64']
invalid_selection(rows, feature) ==
    \/ feature \notin df_columns(rows)
    \/ DataFrame_dtype(Column(rows, feature)) \notin {"int64", "float64"}

update_analysis(data, ncols, feature, threshold, keeps_index) ==
    IF data = None \/ feature = "None" \/ ncols = None THEN Placeholder
    ELSE
    LET rows == data.rows
    IN
    IF invalid_selection(rows, feature) THEN Placeholder
    ELSE
    LET kept == dropna(Column(rows, feature))
        z == zscore([j \in 1..Len(kept) |-> kept[j].value])
        zcol == set_z_score(Len(rows), kept, z, keeps_index)
    IN
    IF zcol.raised THEN Raised
    ELSE
    LET other_features == FilterSeq(ncols.cols, Range(ncols.cols) \ {feature})
        scatter_y == IF other_features # <<>> THEN other_features[1] ELSE feature
        same == (feature = scatter_y)
        frame == [i \in 1..Len(rows) |->
                    [cells |-> IF same
                               THEN [c \in DOMAIN rows[i] \cup {"index"} |->
                                       IF c = "index" THEN Num(i - 1) ELSE rows[i][c]]
                               ELSE rows[i],
                     z_score |-> zcol.col[i],
                     anomaly_label |-> anomaly_label(zcol.col[i], threshold)]]
        anomalous_points == abnormal_from(frame, 1)
    IN [raised |-> FALSE,
        figure |-> [kind |-> "scatter", x |-> feature,
                    y |-> IF same THEN "index" ELSE scatter_y, frame |-> frame],
        histograms |-> ncols.cols,
        table |-> anomalous_points,
        columns |-> <<"index">> \o ncols.cols \o <<"z_score">>,
        kpi |-> Len(anomalous_points),
        store |-> [kind |-> "split", rows |-> anomalous_points]]

(***************************************************************************)
(* classify_risk and generate_smart_report (dashboard.py).                 *)
(***************************************************************************)
\* risk_of_ratio with the first comparison weakened to ratio >= 0.5
risk_of_ratio_ge(count, total_anomalies) ==
    IF total_anomalies = 0 THEN "ZeroDivisionError"
    ELSE IF 2 * count >= total_anomalies THEN "High"
    ELSE IF 5 * count > total_anomalies THEN "Medium"
    ELSE "Low"

\* ratio = count / total_anomalies, then ratio > 0.5 and ratio > 0.2;
\* the division raises when total_anomalies is 0
risk_of_ratio(count, total_anomalies) ==
    IF total_anomalies = 0 THEN "ZeroDivisionError"
    ELSE IF 2 * count > total_anomalies THEN "High"
    ELSE IF 5 * count > total_anomalies THEN "Medium"
    ELSE "Low"

\* classify_risk without the test of total_anomalies == 0 before the division
classify_risk_unguarded(count, total_anomalies) ==
    risk_of_ratio(count, total_anomalies)

classify_risk(count, total_anomalies) ==
    IF total_anomalies = 0 THEN "Low"
    ELSE risk_of_ratio(count, total_anomalies)

attack_types == <<"DDoS", "DoS", "Port Scan", "Brute Force", "Botnet", "Web Attacks">>

\* the draws of np.random.poisson after np.random.seed(42 + total_anomalies):
\* draw 1 and 2 are DDoS's base and extra count, draws 3..7 the other types';
\* a Poisson draw with rate 0 is 0
attack_count(stream, total_anomalies, k) ==
    IF k = 1
    THEN stream[total_anomalies][1]
         + (IF total_anomalies = 0 THEN 0 ELSE stream[total_anomalies][2])
    ELSE stream[total_anomalies][k + 1]

\* f"{count / total_anomalies * 100:.1f}%", in tenths of a percent
probability(count, total_anomalies) ==
    IF total_anomalies > 0
    THEN (2000 * count + total_anomalies) \div (2 * total_anomalies)
    ELSE 0

RECURSIVE report_rows_every_count(_, _, _)
\* report_rows without the test count > 0: every category has a row
report_rows_every_count(stream, total_anomalies, k) ==
    IF k > Len(attack_types) THEN <<>>
    ELSE LET count == attack_count(stream, total_anomalies, k)
         IN <<[attack_type |-> attack_types[k], count |-> count,
               probability |-> probability(count, total_anomalies),
               risk_level |-> classify_risk(count, total_anomalies)]>>
            \o report_rows_every_count(stream, total_anomalies, k + 1)

RECURSIVE report_rows(_, _, _)
report_rows(stream, total_anomalies, k) ==
    IF k > Len(attack_types) THEN <<>>
    ELSE LET count == attack_count(stream, total_anomalies, k)
         IN (IF count > 0
             THEN <<[attack_type |-> attack_types[k], count |-> count,
                     probability |-> probability(count, total_anomalies),
                     risk_level |-> classify_risk(count, total_anomalies)]>>
             ELSE <<>>) \o report_rows(stream, total_anomalies, k + 1)

\* max(report_data, key=count): the first row with the greatest count
highest_row(report_data) ==
    report_data[CHOOSE i \in DOMAIN report_data :
                  /\ \A j \in DOMAIN report_data :
                        report_data[j].count <= report_data[i].count
                  /\ \A j \in 1..(i - 1) :
                        report_data[j].count < report_data[i].count]

NoReport(name, stamp) ==
    [has_data |-> FALSE, highest_name |-> name, highest_count |-> 0,
     highest_prob |-> 0, highest_risk |-> IF name = "No Threats" THEN "Low" ELSE "-",
     table |-> <<>>, timestamp |-> stamp]

generate_smart_report(anomalous_json, stream) ==
    IF anomalous_json = None THEN NoReport("-", "No report generated")
    ELSE
    LET total_anomalies == Len(anomalous_json.rows)
        report_data == report_rows(stream, total_anomalies, 1)
    IN IF report_data = <<>> THEN NoReport("No Threats", "now")
       ELSE LET highest == highest_row(report_data)
            IN [has_data |-> TRUE, highest_name |-> highest.attack_type,
                highest_count |-> highest.count,
                highest_prob |-> highest.probability,
                highest_risk |-> highest.risk_level,
                table |-> report_data, timestamp |-> "now"]

(***************************************************************************)
(* The callbacks as Dash runs them.  update_analysis has the two stores,   *)
(* the dropdown and the slider as Inputs, generate_smart_report has        *)
(* 'anomalous-data-store': a change of an Input runs the callback, and its *)
(* outputs run the next one.  An exception in update_analysis leaves the   *)
(* page's outputs as they were and runs nothing further.                   *)
(***************************************************************************)
\* RunAnalysis patching what the page shows: a new scatter keeps the table and
\* the count of the scatter before it
RunAnalysis_patching(data, ncols, feature, threshold) ==
    LET out == update_analysis(data, ncols, feature, threshold, zscore_keeps_index)
        shown == IF /\ ~out.raised /\ out.figure.kind = "scatter"
                    /\ ~analysis.raised /\ analysis.figure.kind = "scatter"
                 THEN [out EXCEPT !.table = analysis.table, !.kpi = analysis.kpi]
                 ELSE out
    IN /\ analysis' = shown
       /\ report' = IF out.raised THEN report
                    ELSE generate_smart_report(out.store, np_stream)

RunAnalysis(data, ncols, feature, threshold) ==
    LET out == update_analysis(data, ncols, feature, threshold, zscore_keeps_index)
    IN /\ analysis' = out
       /\ report' = IF out.raised THEN report
                    ELSE generate_smart_report(out.store, np_stream)

HandleFileUpload(upload) ==
    LET up == handle_file_upload(upload)
    IN /\ stored_data' = up.stored_data
       /\ numeric_cols' = up.numeric_cols
       /\ RunAnalysis(up.stored_data, up.numeric_cols,
                      selected_feature, z_score_threshold)
       /\ UNCHANGED <<zscore_keeps_index, np_stream, selected_feature,
                      z_score_threshold, direct>>

SelectFeature(feature) ==
    /\ feature # selected_feature
    /\ selected_feature' = feature
    /\ RunAnalysis(stored_data, numeric_cols, feature, z_score_threshold)
    /\ UNCHANGED <<zscore_keeps_index, np_stream, stored_data, numeric_cols,
                   z_score_threshold, direct>>

MoveSlider(threshold) ==
    /\ threshold # z_score_threshold
    /\ z_score_threshold' = threshold
    /\ RunAnalysis(stored_data, numeric_cols, selected_feature, threshold)
    /\ UNCHANGED <<zscore_keeps_index, np_stream, stored_data, numeric_cols,
                   selected_feature, direct>>

\* the most rows an uploaded file has: MaxRows, or the 5 of the file 1, 2, 3, 4, 100
MostRows == IF MaxRows > 5 THEN MaxRows ELSE 5

\* the stream of Poisson draws numpy produces after each seed: here the third
\* draw (DoS) is 1 and the others are 0
Streams ==
    {[n \in 0..MostRows |-> [k \in 1..7 |-> IF k = 3 THEN 1 ELSE 0]]}

InitPage ==
    /\ stored_data = None
    /\ numeric_cols = None
    /\ selected_feature = "None"
    /\ z_score_threshold = 30
    /\ analysis = Placeholder
    /\ report = NoReport("-", "No report generated")

(***************************************************************************)
(* Accounts, login and routing (login.py, app.py) and the attack-type      *)
(* cards (dashboard.py).  A username, email or password that is None or    *)
(* the empty string is "" here: Python's `not value` is true of both.      *)
(***************************************************************************)
Usernames == {"", "admin", "bob"}

Passwords == {"", "admin123", "pw"}

Emails == {"", "bob@mail.io"}

Paths == {"/", "/insights", "/settings", "/logout", "/register", "/login"}

\* what 'login-state' can hold: nothing, or the dict login_user returned
LoginStates == {None, [logged_in |-> FALSE], [logged_in |-> TRUE]}

\* USERS_DB as login.py defines it
BuiltInUsers ==
    [u \in {"admin", "user"} |->
        IF u = "admin" THEN [password |-> "admin123", email |-> "admin@gmail.com"]
        ELSE [password |-> "user123", email |-> "user@gmail.com"]]

\* db[username] = {"password": password, "email": email}
setitem(db, username, password, email) ==
    [u \in DOMAIN db \cup {username} |->
        IF u = username THEN [password |-> password, email |-> email] ELSE db[u]]

\* register_user without the test `username in USERS_DB`
register_user_overwriting(username, email, password, db) ==
    IF username = "" \/ email = "" \/ password = ""
    THEN [USERS_DB |-> db, register_message |-> "Please fill all fields"]
    ELSE [USERS_DB |-> setitem(db, username, password, email),
          register_message |-> "Registered! Go back and login."]

register_user(username, email, password, db) ==
    IF username = "" \/ email = "" \/ password = ""
    THEN [USERS_DB |-> db, register_message |-> "Please fill all fields"]
    ELSE IF username \in DOMAIN db
    THEN [USERS_DB |-> db, register_message |-> "Username already exists"]
    ELSE [USERS_DB |-> setitem(db, username, password, email),
          register_message |-> "Registered! Go back and login."]

\* login_user without the comparison of the password
login_user_any_password(username, password, db) ==
    IF username = "" \/ password = ""
    THEN [login_state |-> [logged_in |-> FALSE],
          login_message |-> "Enter username & password"]
    ELSE IF username \in DOMAIN db
    THEN [login_state |-> [logged_in |-> TRUE], login_message |-> "Login successful!"]
    ELSE [login_state |-> [logged_in |-> FALSE], login_message |-> "Invalid credentials"]

login_user(username, password, db) ==
    IF username = "" \/ password = ""
    THEN [login_state |-> [logged_in |-> FALSE],
          login_message |-> "Enter username & password"]
    ELSE IF username \in DOMAIN db /\ db[username].password = password
    THEN [login_state |-> [logged_in |-> TRUE], login_message |-> "Login successful!"]
    ELSE [login_state |-> [logged_in |-> FALSE], login_message |-> "Invalid credentials"]

\* display_page without the test of login_state
display_page_unguarded(path, state) ==
    IF path = "/logout" THEN "login"
    ELSE IF path = "/register" THEN "register"
    ELSE IF path = "/insights" THEN "insights"
    ELSE IF path = "/settings" THEN "settings"
    ELSE "dashboard"

\* the layout display_page returns, by its name
display_page(path, state) ==
    IF path = "/logout" THEN "login"
    ELSE IF path = "/register" THEN "register"
    ELSE IF state = None \/ ~state.logged_in THEN "login"
    ELSE IF path = "/insights" THEN "insights"
    ELSE IF path = "/settings" THEN "settings"
    ELSE "dashboard"

\* _build_attack_cards(selected_idx): six cards with n_clicks=0, the card at
\* selected_idx (0-based, -1: none) in the selected style
build_attack_cards(selected_idx) ==
    [selected_idx |-> selected_idx,
     n_clicks |-> [i \in DOMAIN attack_types |-> 0]]

\* clicks.index(max(clicks)) if max(clicks) > 0 else -1
index_of_max(clicks) ==
    IF \A i \in DOMAIN clicks : clicks[i] <= 0 THEN -1
    ELSE (CHOOSE i \in DOMAIN clicks :
            /\ \A j \in DOMAIN clicks : clicks[j] <= clicks[i]
            /\ \A j \in 1..(i - 1) : clicks[j] < clicks[i]) - 1

\* update_attack_selection restyling the cards in place: their n_clicks stay
update_attack_selection_in_place(clicks) ==
    [selected_idx |-> index_of_max(clicks), n_clicks |-> clicks]

update_attack_selection(clicks) == build_attack_cards(index_of_max(clicks))

\* 'page-content' takes display_page's layout: the register message is
\* empty and the dashboard's cards are as get_dashboard_layout builds them;
\* ended: the session is logged out after this step
Render(path, state, ended) ==
    /\ page_content' = display_page(path, state)
    /\ logged_out' = ended
    /\ register_message' = ""
    /\ attack_types_grid' = build_attack_cards(-1)
    /\ last_clicked' = 0

\* the browser loads the application at a path: the stores are as in app.layout
LoadPage(path) ==
    /\ pathname' = path
    /\ login_state' = [logged_in |-> FALSE]
    /\ Render(path, login_state', path = "/logout" \/ logged_out)
    /\ UNCHANGED <<page, call_args, call_result, np_random, requests,
                   USERS_DB, registering>>

\* a link or the browser's history changes 'url'.pathname (refresh=False)
Navigate(path) ==
    /\ path # pathname
    /\ pathname' = path
    /\ Render(path, login_state, path = "/logout" \/ logged_out)
    /\ UNCHANGED <<page, call_args, call_result, np_random, requests,
                   USERS_DB, login_state, registering>>

\* LOGIN is clicked: login_user writes 'login-state', which runs display_page
LoginUser(username, password) ==
    /\ page_content = "login"
    /\ login_state' = login_user(username, password, USERS_DB).login_state
    /\ Render(pathname, login_state', logged_out /\ ~login_state'.logged_in)
    /\ UNCHANGED <<page, call_args, call_result, np_random, requests,
                   USERS_DB, pathname, registering>>

\* REGISTER is clicked
RegisterUser(username, email, password) ==
    /\ page_content = "register"
    /\ LET out == register_user(username, email, password, USERS_DB)
       IN /\ USERS_DB' = out.USERS_DB
          /\ register_message' = out.register_message
    /\ UNCHANGED <<page, call_args, call_result, np_random, requests,
                   login_state, pathname, page_content, logged_out,
                   registering, cards>>

\* card i of the dashboard is clicked: its n_clicks goes up by one
ClickCard(i) ==
    /\ page_content = "dashboard"
    /\ attack_types_grid' =
          update_attack_selection([attack_types_grid.n_clicks EXCEPT ![i] = @ + 1])
    /\ last_clicked' = i
    /\ UNCHANGED <<page, call_args, call_result, np_random, requests,
                   account, registering>>

\* display_page called on its own
DisplayPage(path, state) ==
    /\ call_args' = <<path, state>>
    /\ call_result' = display_page(path, state)
    /\ UNCHANGED <<page, np_random, requests, account, registering, cards>>

\* the page as the browser first loads it at "/"
InitAccount ==
    /\ USERS_DB = BuiltInUsers
    /\ login_state = [logged_in |-> FALSE]
    /\ pathname = "/"
    /\ page_content = display_page("/", [logged_in |-> FALSE])
    /\ register_message = ""
    /\ logged_out = FALSE
    /\ registering = <<>>
    /\ attack_types_grid = build_attack_cards(-1)
    /\ last_clicked = 0

\* no report request is in flight and the generator has not been seeded
NoRequests ==
    /\ np_random = [seed |-> 0, pos |-> 0]
    /\ requests = <<>>

Init ==
    /\ zscore_keeps_index \in BOOLEAN
    /\ np_stream \in Streams
    /\ InitPage
    /\ call_args = <<>>
    /\ call_result = "none"
    /\ NoRequests
    /\ InitAccount

Next ==
    \/ \E upload \in Uploads : HandleFileUpload(upload)
    \/ \E feature \in FeatureNames \cup {"None"} : SelectFeature(feature)
    \/ \E threshold \in Thresholds : MoveSlider(threshold)

Spec == Init /\ [][Next]_vars

(***************************************************************************)
(* classify_risk called on its own, over all counts and totals up to       *)
(* MaxCount.                                                               *)
(***************************************************************************)
InitRisk ==
    /\ zscore_keeps_index = FALSE
    /\ np_stream \in Streams
    /\ InitPage
    /\ call_args \in (0..MaxCount) \X (0..MaxCount)
    /\ call_result = "pending"
    /\ NoRequests
    /\ InitAccount

ClassifyRisk ==
    /\ call_result = "pending"
    /\ call_result' = classify_risk(call_args[1], call_args[2])
    /\ UNCHANGED <<page, call_args, np_random, requests, account, registering, cards>>

SpecRisk == InitRisk /\ [][ClassifyRisk]_vars

(***************************************************************************)
(* The page with the slider as the layout builds it (1.0 to 5.0 in steps   *)
(* of 0.1) and two files: x = 1, 2, 3, 4, 100, and x = 0, 1, 7, whose      *)
(* last z-score, 1.4018, rounds to 1.40.                                   *)
(***************************************************************************)
SliderValues == 10..50

ScenarioValues == {<<1, 2, 3, 4, 100>>, <<0, 1, 7>>}

ScenarioFiles ==
    {[columns |-> <<"x", "y", "s">>,
      rows |-> [i \in 1..Len(xs) |-> CsvRow(<<"x", "y", "s">>, Num(xs[i]))]] :
        xs \in ScenarioValues}

NextScenario ==
    \/ \E f \in ScenarioFiles :
          HandleFileUpload([contents |-> "b64", csv |-> TRUE,
                            parses |-> TRUE, file |-> f])
    \/ \E feature \in FeatureNames \cup {"None"} : SelectFeature(feature)
    \/ \E threshold \in SliderValues : MoveSlider(threshold)

SpecScenario == Init /\ [][NextScenario]_vars

(***************************************************************************)
(* generate_smart_report called on its own with the JSON of n anomalous    *)
(* rows, over every stream of draws up to MaxDraw.                         *)
(***************************************************************************)
ReportStreams ==
    {[n \in 0..MaxRows |-> draws] : draws \in [1..7 -> 0..MaxDraw]}

\* anomalous_points.to_json(orient='split') of n rows, as the report reads it
AnomaliesJson(n) == [kind |-> "split", rows |-> [i \in 1..n |-> i]]

InitReport ==
    /\ zscore_keeps_index = FALSE
    /\ np_stream \in ReportStreams
    /\ InitPage
    /\ call_args \in {<<n>> : n \in 0..MaxRows}
    /\ call_result = "pending"
    /\ NoRequests
    /\ InitAccount

GenerateSmartReport ==
    /\ call_result = "pending"
    /\ report' = generate_smart_report(AnomaliesJson(call_args[1]), np_stream)
    /\ call_result' = "done"
    /\ UNCHANGED <<zscore_keeps_index, np_stream, stored_data, numeric_cols,
                   selected_feature, z_score_threshold, analysis,
                   call_args, np_random, requests,
                   account, registering, cards>>

SpecReport == InitReport /\ [][GenerateSmartReport]_vars

(***************************************************************************)
(* Two requests for generate_smart_report served by two threads of the     *)
(* server, with n1 and n2 anomalous rows.  Each call of np.random is one   *)
(* step: it reads and advances the generator of the process.  A draw is    *)
(* what the generator's stream holds at its position after its last seed.  *)
(***************************************************************************)
\* after np.random.seed(42 + n), draw k is 1 when k + n is a multiple of 4
ConcurrentStreams ==
    {[n \in 0..MaxRows |-> [k \in 1..14 |-> IF (k + n) % 4 = 0 THEN 1 ELSE 0]]}

NewRequest(n) ==
    [total_anomalies |-> n, pc |-> "seed", attack |-> 1, base_count |-> 0,
     attack_counts |-> <<>>]

InitConcurrent ==
    /\ zscore_keeps_index = FALSE
    /\ np_stream \in ConcurrentStreams
    /\ InitPage
    /\ call_args = <<>>
    /\ call_result = "none"
    /\ np_random = [seed |-> 0, pos |-> 0]
    /\ requests \in {<<NewRequest(n1), NewRequest(n2)>> : n1, n2 \in 1..MaxRows}
    /\ InitAccount

\* np.random.poisson(...): the next value of the stream of the current seed
next_draw == np_stream[np_random.seed - 42][np_random.pos + 1]

\* np.random.seed(42 + total_anomalies)
SeedGenerator(i) ==
    /\ requests[i].pc = "seed"
    /\ np_random' = [seed |-> 42 + requests[i].total_anomalies, pos |-> 0]
    /\ requests' = [requests EXCEPT ![i].pc = "base"]
    /\ UNCHANGED <<page, call_args, call_result, account, registering, cards>>

\* base_count = np.random.poisson(total_attacks / len(attack_types))
DrawBase(i) ==
    /\ requests[i].pc = "base"
    /\ np_random' = [np_random EXCEPT !.pos = @ + 1]
    /\ requests' =
          [requests EXCEPT ![i] =
              IF @.attack = 1
              THEN [@ EXCEPT !.base_count = next_draw, !.pc = "extra"]
              ELSE [@ EXCEPT !.attack_counts = Append(@, next_draw),
                             !.attack = @ + 1,
                             !.pc = IF requests[i].attack = Len(attack_types)
                                    THEN "done" ELSE "base"]]
    /\ UNCHANGED <<page, call_args, call_result, account, registering, cards>>

\* count = max(0, base_count + np.random.poisson(total_anomalies * 0.1))
DrawExtra(i) ==
    /\ requests[i].pc = "extra"
    /\ np_random' = [np_random EXCEPT !.pos = @ + 1]
    /\ requests' =
          [requests EXCEPT ![i] =
              [@ EXCEPT !.attack_counts = <<requests[i].base_count + next_draw>>,
                        !.attack = 2, !.pc = "base"]]
    /\ UNCHANGED <<page, call_args, call_result, account, registering, cards>>

NextConcurrent ==
    \/ \E i \in DOMAIN requests : SeedGenerator(i)
    \/ \E i \in DOMAIN requests : DrawBase(i)
    \/ \E i \in DOMAIN requests : DrawExtra(i)

SpecConcurrent == InitConcurrent /\ [][NextConcurrent]_vars

(***************************************************************************)
(* A browser session: loading the application, following links, logging    *)
(* in, registering and clicking the attack-type cards; and display_page    *)
(* called on its own with every pathname and login state.                  *)
(***************************************************************************)
InitSession ==
    /\ zscore_keeps_index = FALSE
    /\ np_stream \in Streams
    /\ InitPage
    /\ call_args = <<>>
    /\ call_result = "none"
    /\ NoRequests
    /\ InitAccount

NextSession ==
    \/ \E path \in Paths : LoadPage(path)
    \/ \E path \in Paths : Navigate(path)
    \/ \E username \in Usernames, password \in Passwords :
          LoginUser(username, password)
    \/ \E username \in Usernames, email \in Emails, password \in Passwords :
          RegisterUser(username, email, password)
    \/ \E i \in DOMAIN attack_types : ClickCard(i)
    \/ \E path \in Paths, state \in LoginStates : DisplayPage(path, state)

SpecSession == InitSession /\ [][NextSession]_vars

(***************************************************************************)
(* Two register_user requests served by two threads of the server          *)
(* (app.run serves each request in its own thread).  The test              *)
(* `username in USERS_DB` and the write `USERS_DB[username] = ...` are      *)
(* separate steps with no lock between them.                               *)
(***************************************************************************)
NewRegistration(username, email, password) ==
    [username |-> username, email |-> email, password |-> password,
     pc |-> "check", message |-> "pending"]

InitRegister ==
    /\ zscore_keeps_index = FALSE
    /\ np_stream \in Streams
    /\ InitPage
    /\ call_args = <<>>
    /\ call_result = "none"
    /\ NoRequests
    /\ USERS_DB = BuiltInUsers
    /\ login_state = [logged_in |-> FALSE]
    /\ pathname = "/register"
    /\ page_content = display_page("/register", [logged_in |-> FALSE])
    /\ register_message = ""
    /\ logged_out = FALSE
    /\ registering \in
          {<<NewRegistration(u1, e1, p1), NewRegistration(u2, e2, p2)>> :
              u1 \in Usernames, u2 \in Usernames, e1 \in Emails, e2 \in Emails,
              p1 \in Passwords, p2 \in Passwords}
    /\ attack_types_grid = build_attack_cards(-1)
    /\ last_clicked = 0

\* the two tests of register_user: an error returns, otherwise the write is next
CheckRegistration(i) ==
    /\ registering[i].pc = "check"
    /\ LET r == registering[i]
           out == register_user(r.username, r.email, r.password, USERS_DB)
       IN registering' =
             [registering EXCEPT ![i] =
                 IF out.USERS_DB = USERS_DB
                 THEN [@ EXCEPT !.pc = "done", !.message = out.register_message]
                 ELSE [@ EXCEPT !.pc = "write"]]
    /\ UNCHANGED <<page, call_args, call_result, np_random, requests,
                   account, cards>>

\* USERS_DB[username] = {...}; return "Registered! Go back and login."
WriteRegistration(i) ==
    /\ registering[i].pc = "write"
    /\ LET r == registering[i]
       IN USERS_DB' = setitem(USERS_DB, r.username, r.password, r.email)
    /\ registering' =
          [registering EXCEPT ![i] =
              [@ EXCEPT !.pc = "done", !.message = "Registered! Go back and login."]]
    /\ UNCHANGED <<page, call_args, call_result, np_random, requests,
                   login_state, pathname, page_content, register_message,
                   logged_out, cards>>

NextRegister ==
    \/ \E i \in DOMAIN registering : CheckRegistration(i)
    \/ \E i \in DOMAIN registering : WriteRegistration(i)

SpecRegister == InitRegister /\ [][NextRegister]_vars

(***************************************************************************)
(* What the claims speak of.                                               *)
(***************************************************************************)
Rows == stored_data.rows

\* update_analysis scored the selected column: the page shows the scatter
Scored == ~analysis.raised /\ analysis.figure.kind = "scatter"

Frame == analysis.figure.frame

\* the selected feature is a column of the stored dataset
SelectedInData ==
    /\ stored_data # None
    /\ Rows # <<>>
    /\ selected_feature \in DOMAIN Rows[1]

SelectedCells == Column(Rows, selected_feature)

\* the upload found the selected feature to be a numeric column
SelectedNumeric ==
    /\ SelectedInData
    /\ numeric_cols # None
    /\ selected_feature \in Range(numeric_cols.cols)

Present == {i \in DOMAIN SelectedCells : SelectedCells[i].k = "num"}

Missing == {i \in DOMAIN SelectedCells : SelectedCells[i].k = "na"}

\* all non-missing values of the selected column are the same
Degenerate ==
    \A i, j \in Present : SelectedCells[i].v = SelectedCells[j].v

EmptyOutputs ==
    /\ ~analysis.raised
    /\ analysis.figure.kind = "placeholder"
    /\ analysis.histograms = <<>>
    /\ analysis.table = <<>>
    /\ analysis.kpi = 0
    /\ analysis.store = None

(***************************************************************************)
(* C1: in every frame update_analysis has scored, a row is labelled        *)
(* Abnormal exactly when its z-score is a number whose magnitude is        *)
(* strictly greater than the threshold; a row whose magnitude equals the   *)
(* threshold is labelled Normal.                                           *)
(***************************************************************************)
C1_LabelIffStrictlyAbove ==
    Scored =>
        \A i \in DOMAIN Frame :
            LET z == Frame[i].z_score
                t == z_score_threshold
            IN /\ (Frame[i].anomaly_label = "Abnormal")
                    <=> (z.k = "num" /\ (t < 0 \/ 100 * z.n * z.n > t * t * z.d))
               /\ (z.k = "num" /\ t >= 0 /\ 100 * z.n * z.n = t * t * z.d)
                    => Frame[i].anomaly_label = "Normal"

\* a scored row exactly at the threshold (|z| = 1.0), beside an Abnormal-free frame
C1_Witness ==
    /\ Scored
    /\ z_score_threshold > 0
    /\ \E i \in DOMAIN Frame :
          /\ Frame[i].z_score.k = "num"
          /\ 100 * Frame[i].z_score.n * Frame[i].z_score.n
                = z_score_threshold * z_score_threshold * Frame[i].z_score.d
          /\ Frame[i].anomaly_label = "Normal"

(***************************************************************************)
(* C2: for count >= 0 and total > 0, classify_risk returns High when       *)
(* count/total > 0.5, Medium when 0.2 < count/total <= 0.5 and Low when    *)
(* count/total <= 0.2; (5,10) is Medium, (6,10) High, (2,10) Low.          *)
(***************************************************************************)
C2_RiskTiers ==
    (call_result # "pending" /\ call_result # "none" /\ call_args[2] > 0) =>
        LET count == call_args[1]
            total == call_args[2]
        IN /\ (2 * count > total) => call_result = "High"
           /\ (5 * count > total /\ 2 * count <= total) => call_result = "Medium"
           /\ (5 * count <= total) => call_result = "Low"
           /\ call_args = <<5, 10>> => call_result = "Medium"
           /\ call_args = <<6, 10>> => call_result = "High"
           /\ call_args = <<2, 10>> => call_result = "Low"

C2_Witness == call_args = <<5, 10>> /\ call_result = "Medium"

(***************************************************************************)
(* C3: classify_risk(count, 0) is Low for every count, and classify_risk   *)
(* returns one of the three tiers for every count and total: it never      *)
(* divides by zero.                                                        *)
(***************************************************************************)
C3_RiskTotal ==
    (call_result # "pending" /\ call_result # "none") =>
        /\ call_result \in {"Low", "Medium", "High"}
        /\ call_args[2] = 0 => call_result = "Low"

C3_Witness == call_args = <<3, 0>> /\ call_result = "Low"

(***************************************************************************)
(* C4: for a selected numeric column whose non-missing values are all the  *)
(* same, update_analysis completes without error, labels every row Normal  *)
(* and reports an Abnormal count of 0.                                     *)
(***************************************************************************)
C4_DegenerateAllNormal ==
    (SelectedNumeric /\ Present # {} /\ Degenerate) =>
        /\ Scored
        /\ \A i \in DOMAIN Frame : Frame[i].anomaly_label = "Normal"
        /\ analysis.kpi = 0

(***************************************************************************)
(* C5: when the standard deviation of the selected column is 0, every row  *)
(* has the z-score 0; no scored row carries a NaN or infinite z-score.     *)
(***************************************************************************)
C5_ZeroSigmaZeroScore ==
    Scored =>
        \A i \in DOMAIN Frame :
            /\ Frame[i].z_score.k = "num"
            /\ Degenerate => Frame[i].z_score.n = 0

(***************************************************************************)
(* C6: with a threshold <= 0, every row that has a value in the selected   *)
(* column is labelled Abnormal.                                            *)
(***************************************************************************)
C6_NonPositiveThresholdAllAbnormal ==
    (Scored /\ z_score_threshold <= 0) =>
        \A i \in Present : Frame[i].anomaly_label = "Abnormal"

(***************************************************************************)
(* C7: update_analysis scores a column only if the selected feature is a   *)
(* column of the stored dataset whose cells are numbers (or missing); when *)
(* the feature is not a column of the stored dataset, or the column holds  *)
(* text, it returns the placeholder figure, no histograms, an empty table, *)
(* the count 0 and None for the store, and does not raise.                 *)
(***************************************************************************)
C7_ScoresOnlyValidSelection ==
    /\ Scored =>
          /\ SelectedInData
          /\ \A i \in DOMAIN SelectedCells : SelectedCells[i].k \in {"num", "na"}
          /\ \E i \in DOMAIN SelectedCells : SelectedCells[i].k = "num"
    /\ (/\ stored_data # None
        /\ selected_feature # "None"
        /\ \/ ~SelectedInData
           \/ \E i \in DOMAIN SelectedCells : SelectedCells[i].k = "str")
          => EmptyOutputs

\* the dropdown still holds x after a file without column x was uploaded
C7_Witness ==
    /\ stored_data # None
    /\ Rows # <<>>
    /\ selected_feature = "x"
    /\ "x" \notin DOMAIN Rows[1]
    /\ EmptyOutputs

(***************************************************************************)
(* C8: with no dataset loaded, or a dataset without rows, update_analysis  *)
(* returns an empty table, no histograms, the count 0 and None for the     *)
(* store without raising, and generate_smart_report then gives an empty    *)
(* summary table and the highest count 0.                                  *)
(***************************************************************************)
C8_NoRowsNoResults ==
    (stored_data = None \/ Rows = <<>>) =>
        /\ EmptyOutputs
        /\ report.table = <<>>
        /\ report.highest_count = 0

\* a file with a header and no rows is stored while a feature is selected
C8_Witness ==
    /\ stored_data # None
    /\ Rows = <<>>
    /\ selected_feature # "None"
    /\ EmptyOutputs
    /\ report.table = <<>>
    /\ report.highest_count = 0

(***************************************************************************)
(* C9: when the selected numeric column has rows and no non-missing value, *)
(* update_analysis scores nothing and returns the no-data result (no       *)
(* Abnormal row) without raising.                                          *)
(***************************************************************************)
C9_AllMissingNoData ==
    (SelectedNumeric /\ Present = {}) => EmptyOutputs

C9_Witness ==
    /\ SelectedNumeric
    /\ Present = {}
    /\ Missing # {}
    /\ EmptyOutputs

(***************************************************************************)
(* C10: when the selected numeric column has missing values beside its     *)
(* values, update_analysis completes without error, and every row with a   *)
(* value gets the score (v - mean) / sigma of its own value, mean and      *)
(* sigma taken over the non-missing values.                                *)
(***************************************************************************)
C10_TotalWithMissing ==
    (SelectedNumeric /\ Missing # {} /\ Present # {}) =>
        /\ Scored
        /\ LET N == Cardinality(Present)
               S == SumSeq([i \in DOMAIN SelectedCells |-> SelectedCells[i].v])
               Q == SumSeq([i \in DOMAIN SelectedCells |->
                              SelectedCells[i].v * SelectedCells[i].v])
           IN (N * Q - S * S > 0) =>
                 \A i \in Present :
                    /\ Frame[i].z_score.k = "num"
                    /\ Frame[i].z_score.n = N * SelectedCells[i].v - S
                    /\ Frame[i].z_score.d = N * Q - S * S

(***************************************************************************)
(* C11: in every scatter update_analysis draws, the two axes are different *)
(* columns: the y axis is another numeric column when there is one, and    *)
(* otherwise the rows' ordinal positions beside the untouched values of    *)
(* the selected column, whatever the columns are named.                    *)
(***************************************************************************)
C11_AxesDiffer ==
    Scored =>
        LET others == Range(numeric_cols.cols) \ {selected_feature}
        IN /\ analysis.figure.x = selected_feature
           /\ analysis.figure.x # analysis.figure.y
           /\ others # {} => analysis.figure.y \in others
           /\ others = {} =>
                 \A i \in DOMAIN Frame :
                    /\ Frame[i].cells[analysis.figure.y] = Num(i - 1)
                    /\ Frame[i].cells[selected_feature] = Rows[i][selected_feature]

(***************************************************************************)
(* C12: the summary table generate_smart_report returns is ordered by      *)
(* count descending, and rows of equal count by attack type ascending.     *)
(***************************************************************************)
AlphabeticalRank ==
    [a \in Range(attack_types) |->
        CASE a = "Botnet" -> 1
          [] a = "Brute Force" -> 2
          [] a = "DDoS" -> 3
          [] a = "DoS" -> 4
          [] a = "Port Scan" -> 5
          [] a = "Web Attacks" -> 6]

C12_SummarySorted ==
    call_result = "done" =>
        \A i, j \in DOMAIN report.table :
            i < j =>
                \/ report.table[i].count > report.table[j].count
                \/ /\ report.table[i].count = report.table[j].count
                   /\ AlphabeticalRank[report.table[i].attack_type]
                        < AlphabeticalRank[report.table[j].attack_type]

(***************************************************************************)
(* C13: a row is reported in the anomaly table exactly when the magnitude  *)
(* of its unrounded z-score is greater than the threshold, and the table   *)
(* shows that z-score rounded to 2 decimals: a row whose z-score exceeds   *)
(* the threshold and rounds to it is reported, a row whose z-score does    *)
(* not exceed the threshold is not.                                        *)
(***************************************************************************)
Reported(i) ==
    \E j \in DOMAIN analysis.table :
        /\ analysis.table[j].cells["index"] = Num(i - 1)
        /\ analysis.table[j].z_score = round2(Frame[i].z_score)

C13_DecidedUnrounded ==
    Scored =>
        \A i \in DOMAIN Frame :
            LET z == Frame[i].z_score
                t == z_score_threshold
                above == z.k = "num" /\ (t < 0 \/ 100 * z.n * z.n > t * t * z.d)
            IN /\ above => Reported(i)
               /\ ~above =>
                    ~\E j \in DOMAIN analysis.table :
                        analysis.table[j].cells["index"] = Num(i - 1)

\* x = 0, 1, 7 at threshold 1.4: the last row is reported with z_score 1.40
C13_Witness ==
    /\ Scored
    /\ \E j \in DOMAIN analysis.table :
          analysis.table[j].z_score = 10 * z_score_threshold

C15_CountsAsAlone ==
    \A i \in DOMAIN requests :
        requests[i].pc = "done" =>
            requests[i].attack_counts =
                [k \in 1..Len(attack_types) |->
                    attack_count(np_stream, requests[i].total_anomalies, k)]

(***************************************************************************)
(* C16: the stored numeric columns are columns of the stored dataset, the  *)
(* dataset store is None exactly when the numeric-columns store is None,   *)
(* and no step that runs update_analysis for a new selection or a new      *)
(* threshold changes either store: only handle_file_upload writes them.    *)
(***************************************************************************)
StoresConsistent ==
    /\ stored_data = None <=> numeric_cols = None
    /\ numeric_cols # None =>
          Range(numeric_cols.cols) \subseteq df_columns(stored_data.rows)

StoresFromUpload ==
    <<stored_data, numeric_cols>>' # <<stored_data, numeric_cols>> =>
        /\ selected_feature' = selected_feature
        /\ z_score_threshold' = z_score_threshold

C16_NumericColsOfStoredData == []StoresConsistent /\ [][StoresFromUpload]_vars

\* a file is stored whose text column is not among its numeric columns
C16_Witness ==
    /\ stored_data # None
    /\ numeric_cols # None
    /\ Rows # <<>>
    /\ numeric_cols.cols # <<>>
    /\ Range(numeric_cols.cols) # DOMAIN Rows[1]
    /\ Range(numeric_cols.cols) \subseteq DOMAIN Rows[1]

(***************************************************************************)
(* C17: when the selected column has at least two distinct non-missing     *)
(* values, the z-scores of its non-missing rows have mean 0 and population *)
(* standard deviation 1: their deviations from the mean sum to 0 and their *)
(* squares sum to the number of values.                                    *)
(***************************************************************************)
C17_MeanZeroStdOne ==
    (Scored /\ ~Degenerate) =>
        LET N == Cardinality(Present)
            num == [i \in DOMAIN Frame |->
                      IF i \in Present THEN Frame[i].z_score.n ELSE 0]
        IN /\ \A i \in Present : Frame[i].z_score.k = "num"
           /\ \A i, j \in Present : Frame[i].z_score.d = Frame[j].z_score.d
           /\ SumSeq(num) = 0
           /\ \A i \in Present :
                 SumSeq([j \in DOMAIN num |-> num[j] * num[j]])
                    = N * Frame[i].z_score.d

\* three values, two of them distinct, have been scored
C17_Witness ==
    /\ Scored
    /\ ~Degenerate
    /\ Cardinality(Present) >= 3

(***************************************************************************)
(* C18: for the selected column 1, 2, 3, 4, 100 and threshold 1.5 the mean *)
(* is 22, the last row (100) is labelled Abnormal, rows 0..3 are Normal,   *)
(* and the reported Abnormal count is 1.                                   *)
(***************************************************************************)
ScenarioColumn ==
    /\ stored_data # None
    /\ selected_feature = "x"
    /\ Rows # <<>>
    /\ "x" \in DOMAIN Rows[1]
    /\ Column(Rows, "x") = <<Num(1), Num(2), Num(3), Num(4), Num(100)>>

C18_ScenarioOneAbnormal ==
    (ScenarioColumn /\ z_score_threshold = 15) =>
        /\ Scored
        /\ \A i \in 1..5 :
              /\ Frame[i].z_score.k = "num"
              /\ 5 * Rows[i]["x"].v - Frame[i].z_score.n = 5 * 22
        /\ \A i \in 1..4 : Frame[i].anomaly_label = "Normal"
        /\ Frame[5].anomaly_label = "Abnormal"
        /\ analysis.kpi = 1
        /\ Len(analysis.table) = 1
        /\ analysis.table[1].cells["index"] = Num(4)
        /\ analysis.table[1].cells["x"] = Num(100)

C18_Witness ==
    /\ ScenarioColumn
    /\ z_score_threshold = 15
    /\ Frame[5].anomaly_label = "Abnormal"
    /\ analysis.kpi = 1

(***************************************************************************)
(* C19: for the selected column 1, 2, 3, 4, 100 the population standard    *)
(* deviation rounds to 39.01 (2 decimals) and the z-scores round to        *)
(* -0.538, -0.513, -0.487, -0.461, 1.999 (3 decimals).  As first stated,   *)
(* with 38.93 and -0.539, -0.514, -0.488, -0.462, 2.003, it does not hold. *)
(***************************************************************************)
\* the standard deviation sqrt(d) / N of the scored column, in hundredths
StdHundredths ==
    LET N == Len(Frame)
        g == GCD(40000, N * N)
        m == Isqrt(((40000 \div g) * Frame[1].z_score.d) \div ((N * N) \div g))
    IN (m + 1) \div 2

\* the z-scores of the scored column, in thousandths
ZThousandths == [i \in DOMAIN Frame |-> round_to(Frame[i].z_score, 2000)]

C19_ScenarioRounded ==
    ScenarioColumn =>
        /\ Scored
        /\ StdHundredths = 3901
        /\ ZThousandths = <<-538, -513, -487, -461, 1999>>

C19_AsStated ==
    ScenarioColumn =>
        /\ Scored
        /\ StdHundredths = 3893
        /\ ZThousandths = <<-539, -514, -488, -462, 2003>>

C19_Witness ==
    /\ ScenarioColumn
    /\ Scored
    /\ ZThousandths[5] = 1999

AbnormalRows == {i \in DOMAIN Frame : Frame[i].anomaly_label = "Abnormal"}

\* the rows of the anomalous-data store (None holds no row)
StoreRows == IF analysis.store = None THEN <<>> ELSE analysis.store.rows

\* row r of the table or the store is a row of the frame labelled Abnormal
FromAbnormalRow(r) ==
    /\ r.anomaly_label = "Abnormal"
    /\ \E i \in AbnormalRows : r.cells["index"] = Num(i - 1)

C21_CountIsTableIsAbnormal ==
    /\ ~analysis.raised => analysis.kpi = Len(analysis.table)
    /\ Scored =>
        /\ Len(analysis.table) = Cardinality(AbnormalRows)
        /\ \A k \in DOMAIN analysis.table : FromAbnormalRow(analysis.table[k])
        /\ \A k \in DOMAIN StoreRows : FromAbnormalRow(StoreRows[k])
    /\ ~Scored => analysis.table = <<>> /\ StoreRows = <<>>

\* a scored frame with an Abnormal and a Normal row
C21_Witness ==
    /\ Scored
    /\ AbnormalRows # {}
    /\ AbnormalRows # DOMAIN Frame
    /\ analysis.kpi = Cardinality(AbnormalRows)

(***************************************************************************)
(* C22: generate_smart_report lists a category in the summary exactly when *)
(* its count is greater than 0; each listed category carries its count,    *)
(* the risk level of classify_risk(count, total_anomalies) (High above     *)
(* 50%, Medium above 20%, Low otherwise and when the total is 0) and the   *)
(* probability count / total_anomalies * 100 to one decimal (0 when the    *)
(* total is 0), total_anomalies being the number of rows handed over.      *)
(***************************************************************************)
\* the number of anomalous rows the report was called with
ReportTotal == call_args[1]

\* the rows of the summary for category k
Listed(k) == {i \in DOMAIN report.table :
                report.table[i].attack_type = attack_types[k]}

\* the risk level of a count out of a total, by the tiers of the ratio
RiskTier(count, total) ==
    IF total = 0 THEN "Low"
    ELSE IF 2 * count > total THEN "High"
    ELSE IF 5 * count > total THEN "Medium"
    ELSE "Low"

\* p tenths of a percent is count / total * 100 to one decimal
IsPercentOf(p, count, total) ==
    IF total = 0 THEN p = 0
    ELSE LET err == p * total - 1000 * count
         IN 2 * err <= total /\ 2 * err >= -total

C22_ListedIffPositive ==
    call_result = "done" =>
        /\ Len(report.table) <= Len(attack_types)
        /\ \A i \in DOMAIN report.table :
              \E k \in DOMAIN attack_types : i \in Listed(k)
        /\ \A k \in DOMAIN attack_types :
              LET count == attack_count(np_stream, ReportTotal, k)
              IN /\ (Listed(k) # {}) <=> (count > 0)
                 /\ \A i \in Listed(k) :
                       /\ report.table[i].count = count
                       /\ report.table[i].risk_level = RiskTier(count, ReportTotal)
                       /\ IsPercentOf(report.table[i].probability, count, ReportTotal)

\* a report of two rows out of three: one category listed, one not
C22_Witness ==
    /\ call_result = "done"
    /\ ReportTotal = 3
    /\ Listed(2) # {}
    /\ Listed(3) = {}
    /\ \E i \in Listed(2) : /\ report.table[i].count = 1
                            /\ report.table[i].probability = 333
                            /\ report.table[i].risk_level = "Medium"

(***************************************************************************)
(* C28: in every summary produced by generate_smart_report each category's *)
(* count is at most the number of Abnormal rows, the counts sum to at most *)
(* that number, and every reported probability lies between 0% and 100%.   *)
(***************************************************************************)
SummaryCounts == [i \in DOMAIN report.table |-> report.table[i].count]

C28_CountsWithinTotal ==
    call_result = "done" =>
        /\ \A i \in DOMAIN report.table :
              /\ report.table[i].count <= ReportTotal
              /\ report.table[i].probability >= 0
              /\ report.table[i].probability <= 1000
        /\ SumSeq(SummaryCounts) <= ReportTotal

(***************************************************************************)
(* C29: when update_analysis has scored a non-empty dataset and found no   *)
(* Abnormal row, the report of generate_smart_report that follows shows no *)
(* threat: the summary has no category with a positive count and the       *)
(* highest-attack count is 0.                                              *)
(***************************************************************************)
C29_NoAbnormalNoThreats ==
    (Scored /\ Rows # <<>> /\ AbnormalRows = {}) =>
        /\ \A i \in DOMAIN report.table : report.table[i].count <= 0
        /\ report.highest_count = 0

(***************************************************************************)
(* C23: login_user sets login-state to logged_in = True exactly when the   *)
(* submitted username is a key of USERS_DB and the submitted password      *)
(* equals the password stored for it; with an empty username or password,  *)
(* or any mismatch, it sets logged_in = False.                             *)
(***************************************************************************)
CredentialsMatch(username, password) ==
    /\ username \in DOMAIN USERS_DB
    /\ USERS_DB[username].password = password

C23_LoginIffCredentials ==
    [][\A username \in Usernames, password \in Passwords :
          LoginUser(username, password) =>
             /\ login_state'.logged_in <=> CredentialsMatch(username, password)
             /\ (username = "" \/ password = "") => ~login_state'.logged_in]_vars

\* a user registered in this run has logged in
C23_Witness ==
    /\ login_state.logged_in
    /\ page_content = "dashboard"
    /\ "bob" \in DOMAIN USERS_DB

(***************************************************************************)
(* C24: the user store is create/read only: no step of register_user or    *)
(* login_user changes the password or email stored for an existing         *)
(* username (the built-in 'admin' and 'user' included) or removes a        *)
(* username; register_user with a username already present or with an     *)
(* empty field leaves USERS_DB unchanged and returns an error message.     *)
(***************************************************************************)
RegisterErrors == {"Please fill all fields", "Username already exists"}

C24_StoreCreateReadOnly ==
    [][/\ \A u \in DOMAIN USERS_DB :
             u \in DOMAIN USERS_DB' /\ USERS_DB'[u] = USERS_DB[u]
       /\ \A username \in Usernames, email \in Emails, password \in Passwords :
             (/\ RegisterUser(username, email, password)
              /\ \/ username \in DOMAIN USERS_DB
                 \/ username = "" \/ email = "" \/ password = "")
             => /\ USERS_DB' = USERS_DB
                /\ register_message' \in RegisterErrors]_vars

\* bob has registered and a second registration of bob was refused
C24_Witness ==
    /\ "bob" \in DOMAIN USERS_DB
    /\ register_message = "Username already exists"
    /\ USERS_DB["admin"] = BuiltInUsers["admin"]

(***************************************************************************)
(* C25: display_page returns the dashboard, insights or settings layout    *)
(* only when login-state has logged_in = True; whenever logged_in is False *)
(* or login-state is missing, every path other than /register yields the   *)
(* login layout; the initial state shows the login page.                   *)
(***************************************************************************)
ProtectedLayouts == {"dashboard", "insights", "settings"}

LoggedIn(state) == state # None /\ state.logged_in

\* what display_page returned for a pathname and a login state
Guarded(path, state, layout) ==
    /\ layout \in ProtectedLayouts => LoggedIn(state)
    /\ (~LoggedIn(state) /\ path # "/register") => layout = "login"

C25_ProtectedOnlyLoggedIn ==
    /\ ~login_state.logged_in /\ page_content = "login"
    /\ [](/\ Guarded(pathname, login_state, page_content)
          /\ call_args # <<>> => Guarded(call_args[1], call_args[2], call_result))

\* a session not logged in at /settings shows the login page, and a call
\* without a login state at /insights returned it
C25_Witness ==
    /\ ~login_state.logged_in
    /\ pathname = "/settings"
    /\ page_content = "login"
    /\ call_args = <<"/insights", None>>
    /\ call_result = "login"

(***************************************************************************)
(* C26: logging out ends the session: once display_page has handled        *)
(* /logout, and until login_user succeeds again, a protected path (/,      *)
(* /insights, /settings) shows the login layout.                           *)
(***************************************************************************)
ProtectedPaths == {"/", "/insights", "/settings"}

C26_LogoutEndsSession ==
    (logged_out /\ pathname \in ProtectedPaths) => page_content = "login"

(***************************************************************************)
(* C30: after any sequence of clicks on the six attack-type cards the card *)
(* highlighted is the one clicked most recently; with no click, no card is *)
(* highlighted.                                                            *)
(***************************************************************************)
C30_LastClickedHighlighted ==
    attack_types_grid.selected_idx = last_clicked - 1

\* card 1 was clicked, card 3 after it, and card 3 is highlighted
C30_Witness ==
    /\ page_content = "dashboard"
    /\ last_clicked = 3
    /\ attack_types_grid.selected_idx = 2

(***************************************************************************)
(* C27: when two register_user requests for the same new username run      *)
(* concurrently, at most one of them reports a successful registration,    *)
(* and the credentials stored are those of the request that reported       *)
(* success.                                                                *)
(***************************************************************************)
Registered(i) == registering[i].message = "Registered! Go back and login."

C27_AtMostOneRegisters ==
    \A i, j \in DOMAIN registering :
        (/\ i # j
         /\ registering[i].username = registering[j].username
         /\ registering[i].username \notin DOMAIN BuiltInUsers
         /\ registering[i].pc = "done"
         /\ registering[j].pc = "done")
        => /\ ~(Registered(i) /\ Registered(j))
           /\ Registered(i) =>
                 USERS_DB[registering[i].username] =
                    [password |-> registering[i].password,
                     email |-> registering[i].email]

====
